---- MODULE Spec2Model ----
(***************************************************************************)
(* A model of the Hofstadter band-structure code:                          *)
(*   code/functions/models.py          nearest_neighbor_finder,            *)
(*                                     nearest_neighbor_sorter,            *)
(*                                     peierls_factor, diag_func,          *)
(*                                     Hamiltonian                         *)
(*   code/functions/band_structure.py  _principal, berry_curv, geom_tensor *)
(*   code/models/hofstadter.py         Hofstadter.unit_cell, .hamiltonian  *)
(*                                                                         *)
(* The functions are pure; the state machine is a driver that draws the    *)
(* arguments of one call from small sets, applies the function and keeps   *)
(* the arguments in `call` and what came back in `ret`.  The neighbour     *)
(* pipeline (finder -> sorter -> Hamiltonian) hands its tables on in       *)
(* data_array and vec_group_list; the array of eigenvectors handed to      *)
(* berry_curv and geom_tensor is in eigenvectors.                          *)
(*                                                                         *)
(* Numbers are exact.  Lengths are kept as squared radii in integer units, *)
(* angles as multiples of pi/angle_den, phases as multiples of 2*pi/24 and *)
(* matrix entries as elements of Z[zeta], zeta = exp(2*pi*i/24), written   *)
(* on the basis 1, zeta, ..., zeta^7 (zeta^8 = zeta^4 - 1).                *)
(***************************************************************************)
EXTENDS Integers, Sequences, FiniteSets, TLC

VARIABLES pc, call, ret, data_array, vec_group_list, eigenvectors

vars == <<pc, call, ret, data_array, vec_group_list, eigenvectors>>

(***************************************************************************)
(* Bounds of the driver.                                                   *)
(***************************************************************************)
\* longest hopping list t_list drawn (the highest neighbour order requested)
MaxOrder == 2

\* number of finder tables stacked into one data_array
MaxTables == 2

(***************************************************************************)
(* Small helpers.                                                          *)
(***************************************************************************)
Abs(x) == IF x < 0 THEN -x ELSE x

Range(s) == {s[i] : i \in 1..Len(s)}

RECURSIVE SetToSortedSeq(_)
\* np.sort(list(set(...))): the distinct values in increasing order
SetToSortedSeq(S) ==
  IF S = {} THEN <<>>
  ELSE LET lo == CHOOSE a \in S : \A b \in S : a <= b
       IN <<lo>> \o SetToSortedSeq(S \ {lo})

RECURSIVE Flatten(_)
Flatten(ss) == IF ss = <<>> THEN <<>> ELSE Head(ss) \o Flatten(Tail(ss))

(***************************************************************************)
(* The lattices the driver hands to nearest_neighbor_finder.  Coordinates  *)
(* are integers in the units of acartvec's diagonal: x in acartvec[0][0],  *)
(* y in acartvec[1][1], so that columns 4 and 5 (round(r/acartvec)) are    *)
(* the integers themselves.  wx, wy weigh the squared radius:              *)
(*   square      acartvec = ((1,0),(0,1)),         r^2 =  x^2 +   y^2      *)
(*   triangular  acartvec = ((1/2,0),(0,sqrt3/2)), r^2 = (x^2 + 3*y^2)/4   *)
(***************************************************************************)
Lattices == {"square", "triangular"}

avec(lat) ==
  IF lat = "square" THEN << <<1, 0>>, <<0, 1>> >>
  ELSE << <<2, 0>>, <<1, 1>> >>

abasisvec(lat) == << <<0, 0>> >>

wx(lat) == 1

wy(lat) == IF lat = "square" THEN 1 ELSE 3

\* np.angle is reported in units of pi/angle_den
angle_den(lat) == IF lat = "square" THEN 4 ELSE 6

\* the sum of the absolute coordinates in place of the norm
norm2_alt(lat, x, y) == Abs(x) + Abs(y)

\* round(np.linalg.norm(r), 10), kept as the squared radius (in units of
\* a0^2 on the square lattice, a0^2/4 on the triangular one): equal squared
\* radii are equal rounded radii and a larger one is a larger rounded radius
norm2(lat, x, y) == wx(lat) * x * x + wy(lat) * y * y

\* the angle of a vector of the first quadrant (x >= 0, y >= 0):
\* lo*pi/angle_den when exact, else inside (lo, lo+1)*pi/angle_den
angle_q1(lat, x, y) ==
  IF y = 0 THEN [lo |-> 0, exact |-> TRUE]
  ELSE IF x = 0 THEN [lo |-> angle_den(lat) \div 2, exact |-> TRUE]
  ELSE IF lat = "square" THEN
         IF y = x THEN [lo |-> 1, exact |-> TRUE]
         ELSE IF y < x THEN [lo |-> 0, exact |-> FALSE]
         ELSE [lo |-> 1, exact |-> FALSE]
  ELSE   IF 3 * y = x THEN [lo |-> 1, exact |-> TRUE]
         ELSE IF y = x THEN [lo |-> 2, exact |-> TRUE]
         ELSE IF 3 * y < x THEN [lo |-> 0, exact |-> FALSE]
         ELSE IF y < x THEN [lo |-> 1, exact |-> FALSE]
         ELSE [lo |-> 2, exact |-> FALSE]

\* np.angle(r[0] + 1j*r[1]): the argument in (-pi, pi]
angle_upper(lat, x, y) ==
  LET a == angle_q1(lat, Abs(x), y)
  IN IF x >= 0 THEN a
     ELSE IF a.exact THEN [lo |-> angle_den(lat) - a.lo, exact |-> TRUE]
     ELSE [lo |-> angle_den(lat) - a.lo - 1, exact |-> FALSE]

np_angle(lat, x, y) ==
  IF y >= 0 THEN angle_upper(lat, x, y)
  ELSE LET a == angle_upper(lat, x, -y)
       IN IF a.exact THEN [lo |-> -a.lo, exact |-> TRUE]
          ELSE [lo |-> -a.lo - 1, exact |-> FALSE]

(***************************************************************************)
(* nearest_neighbor_finder(avec, acartvec, abasisvec, t_list, m_init,      *)
(*                         n_init)                                         *)
(***************************************************************************)
\* the neighbour orders with a nonzero amplitude, in increasing order
numb_list(t_list) ==
  SelectSeq([i \in 1..Len(t_list) |-> i], LAMBDA i : t_list[i] # 0)

\* numb_list[-1]; on an empty list Python raises IndexError, kept as -1
last_numb_alt(nl) == IF Len(nl) = 0 THEN 0 ELSE nl[Len(nl)]

last_numb(nl) == IF Len(nl) = 0 THEN -1 ELSE nl[Len(nl)]

\* the grid over range(-K, K): the last row and column left out
vectors_alt(lat, K, m_init, n_init) ==
  LET side == 2 * K
      nb   == Len(abasisvec(lat))
  IN [c \in 1..(side * side * nb) |->
        LET i == ((c - 1) \div (side * nb)) - K
            j == (((c - 1) \div nb) % side) - K
            k == abasisvec(lat)[((c - 1) % nb) + 1]
            a == avec(lat)
        IN << i * a[1][1] + j * a[2][1] + k[1] - m_init,
              i * a[1][2] + j * a[2][2] + k[2] - n_init >>]

\* the grid of candidates, in the order of the loops over i, j and the basis,
\* already shifted by the reference cell (m_init, n_init)
vectors(lat, K, m_init, n_init) ==
  LET side == 2 * K + 1
      nb   == Len(abasisvec(lat))
  IN [c \in 1..(side * side * nb) |->
        LET i == ((c - 1) \div (side * nb)) - K
            j == (((c - 1) \div nb) % side) - K
            k == abasisvec(lat)[((c - 1) % nb) + 1]
            a == avec(lat)
        IN << i * a[1][1] + j * a[2][1] + k[1] - m_init,
              i * a[1][2] + j * a[2][2] + k[2] - n_init >>]

\* one row of the data array; NN (column 6) is filled in by the labelling
\* loop, m_init, n_init and m_tot (columns 7, 8, 9) with it
data_row(lat, r, m_init, n_init) ==
  [r2 |-> norm2(lat, r[1], r[2]),
   angle |-> np_angle(lat, r[1], r[2]),
   x |-> r[1], y |-> r[2],
   m |-> r[1], n |-> r[2],
   NN |-> 0,
   m_init |-> m_init, n_init |-> n_init,
   m_tot |-> m_init + r[1]]

\* data[data[:, 0].argsort()]: by increasing radius, rows of one radius in
\* the order they were generated
argsort_rows(rows) ==
  LET rs == SetToSortedSeq({rows[i].r2 : i \in 1..Len(rows)})
  IN Flatten([j \in 1..Len(rs) |-> SelectSeq(rows, LAMBDA w : w.r2 = rs[j])])

\* mask = (data[:, 0] != 0); data = data[mask, :]
mask_rows_alt(rows) == rows

mask_rows(rows) == SelectSeq(rows, LAMBDA w : w.r2 # 0)

\* radii[i - 1] for i in numb_list
select_radii(radii, nl) == [i \in 1..Len(nl) |-> radii[nl[i]]]

nearest_neighbor_finder(lat, t_list, m_init, n_init) ==
  LET nl == numb_list(t_list)
      K  == last_numb(nl)
  IN IF K < 0
     THEN [status |-> "IndexError", data |-> <<>>, generated |-> 0]
     ELSE
       LET vs      == vectors(lat, K, m_init, n_init)
           rows    == [c \in 1..Len(vs) |-> data_row(lat, vs[c], m_init, n_init)]
           masked  == mask_rows(argsort_rows(rows))
           radii   == SetToSortedSeq({masked[i].r2 : i \in 1..Len(masked)})
           label   == [c \in 1..Len(masked) |->
                         [masked[c] EXCEPT !.NN =
                            CHOOSE j \in 1..Len(radii) : radii[j] = masked[c].r2]]
       IN IF \E i \in 1..Len(nl) : nl[i] > Len(radii)
          THEN [status |-> "IndexError", data |-> <<>>, generated |-> Len(vs)]
          ELSE LET sel == Range(select_radii(radii, nl))
               IN [status |-> "ok",
                   data |-> SelectSeq(label, LAMBDA w : w.r2 \in sel),
                   generated |-> Len(vs)]

(***************************************************************************)
(* nearest_neighbor_sorter(data_array).  A path is the list [val, mtot] or *)
(* [val, val2, mtot], kept as [vecs |-> <<val>> or <<val, val2>>, mtot];   *)
(* a group is the list of its paths (each without its mtot) followed by    *)
(* the group's m, kept as [paths |-> ..., m |-> ...].                      *)
(***************************************************************************)
\* val[7] + val[4] == 0 and val[8] + val[5] == 0
backtrack(val) == val.m_init + val.m = 0 /\ val.n_init + val.n = 0

delete_backtrack(data) == SelectSeq(data, LAMBDA val : ~backtrack(val))

\* val[7] == 0 and val[8] == 0
origin(val) == val.m_init = 0 /\ val.n_init = 0

\* val[7] + val[4] == val2[7] and val[8] + val[5] == val2[8]
continues(val, val2) ==
  val.m_init + val.m = val2.m_init /\ val.n_init + val.n = val2.n_init

\* the rule with the tie going to the origin row
pair_mtot_alt(val, val2) ==
  LET a  == Abs(val.m_tot)
      b  == Abs(val2.m_tot)
      mx == IF a > b THEN a ELSE b
  IN IF mx = a THEN val.m_tot ELSE val2.m_tot

\* np.max([np.abs(val[9]), np.abs(val2[9])]) == np.abs(val2[9])
pair_mtot(val, val2) ==
  LET a  == Abs(val.m_tot)
      b  == Abs(val2.m_tot)
      mx == IF a > b THEN a ELSE b
  IN IF mx = b THEN val2.m_tot ELSE val.m_tot

\* the loop of the doubled mode: every origin row with every row that
\* continues from the cell it lands in
double_paths(data) ==
  Flatten([i \in 1..Len(data) |->
     IF origin(data[i])
     THEN LET conts == SelectSeq(data, LAMBDA val2 : continues(data[i], val2))
          IN [j \in 1..Len(conts) |->
                [vecs |-> <<data[i], conts[j]>>,
                 mtot |-> pair_mtot(data[i], conts[j])]]
     ELSE <<>>])

\* the loop of the single mode: every origin row
single_paths(data) ==
  LET os == SelectSeq(data, origin)
  IN [j \in 1..Len(os) |-> [vecs |-> <<os[j]>>, mtot |-> os[j].m_tot]]

\* double stays True exactly when the first count finds a pair
sorter_paths(data) ==
  LET dp == double_paths(data)
  IN IF Len(dp) # 0 THEN dp ELSE single_paths(data)

group_paths_alt(paths, mval) ==
  LET sel == SelectSeq(paths, LAMBDA pth : pth.mtot >= mval)
  IN [j \in 1..Len(sel) |-> sel[j].vecs]

\* the paths with val[-1] == mval, each as val[:-1]
group_paths(paths, mval) ==
  LET sel == SelectSeq(paths, LAMBDA pth : pth.mtot = mval)
  IN [j \in 1..Len(sel) |-> sel[j].vecs]

nearest_neighbor_sorter(data_in) ==
  LET data  == delete_backtrack(data_in)
      paths == sorter_paths(data)
      m_tot == SetToSortedSeq({paths[i].mtot : i \in 1..Len(paths)})
  IN [i \in 1..Len(m_tot) |->
        [paths |-> group_paths(paths, m_tot[i]), m |-> m_tot[i]]]

(***************************************************************************)
(* Complex numbers of the Hamiltonian: integer combinations of the 24th    *)
(* roots of unity, as the vector of their coordinates on 1, zeta, ...,     *)
(* zeta^7.  The coordinates are unique, so two entries are equal as        *)
(* complex numbers exactly when their vectors are equal.                   *)
(***************************************************************************)
PhaseOrder == 8 * 3

CBasis == 0..7

CZero == [j \in CBasis |-> 0]

\* zeta^e: zeta^12 = -1 and zeta^8 = zeta^4 - 1
zeta(e) ==
  LET a == e % PhaseOrder
      s == IF a >= 12 THEN -1 ELSE 1
      b == a % 12
  IN [j \in CBasis |->
        IF b < 8 THEN (IF j = b THEN s ELSE 0)
        ELSE IF j = b - 4 THEN s
        ELSE IF j = b - 8 THEN -s
        ELSE 0]

CAdd(u, v) == [j \in CBasis |-> u[j] + v[j]]

CScale(c, u) == [j \in CBasis |-> c * u[j]]

RECURSIVE CSum(_)
CSum(us) == IF us = <<>> THEN CZero ELSE CAdd(Head(us), CSum(Tail(us)))

\* np.conj: zeta^j goes to zeta^(-j)
np_conj(u) == CSum([n \in 1..8 |-> CScale(u[n - 1], zeta(PhaseOrder - (n - 1)))])

\* whether exp(i*phase) of peierls_factor is a 24th root of unity for every
\* integer vec and m: phase/(2*pi) = p*vec[1]*(2*m + vec[0]) / (2*q*area)
representable(basis, q_val) ==
  (IF basis = 2 THEN 4 ELSE 12) % q_val = 0

(***************************************************************************)
(* peierls_factor(basis, nphi, vec, m), nphi = p_val / q_val: the exponent *)
(* e of the factor zeta^e; area 0 stands for the ValueError.               *)
(***************************************************************************)
peierls_area(basis) == IF basis = 1 THEN 1 ELSE IF basis = 2 THEN 3 ELSE 0

peierls_factor(basis, p_val, q_val, vec, m) ==
  (12 * p_val * vec[2] * (2 * m + vec[1])) \div (q_val * peierls_area(basis))

\* np.exp(1j * np.vdot(xy_vector, k)): k is (2*pi/24) * (k[1], k[2]) in the
\* units dual to those of x and y
plane_wave(x, y, k) == k[1] * x + k[2] * y

(***************************************************************************)
(* diag_func(basis, t_val, nphi, vec_list, k, m), called with basis = 1    *)
(***************************************************************************)
diag_func(basis, t_val, p_val, q_val, vec_list, k, m) ==
  LET rows == Flatten(vec_list)
  IN CSum([c \in 1..Len(rows) |->
            CScale(-t_val[rows[c].NN],
                   zeta(peierls_factor(basis, p_val, q_val,
                                       <<rows[c].m, rows[c].n>>, m)
                        + plane_wave(rows[c].x, rows[c].y, k)))])

(***************************************************************************)
(* Hamiltonian(basis, t_val, p_val, q_val, acartvec, vec_group_list,       *)
(*             k_val).  A matrix is a function of row and column, both in  *)
(* 0..q_val-1; a band is the array of its q_val values.                    *)
(***************************************************************************)
MZero(q_val) == [a \in 0..(q_val - 1) |-> [b \in 0..(q_val - 1) |-> CZero]]

\* np.diag(v)
np_diag(v, q_val) ==
  [a \in 0..(q_val - 1) |-> [b \in 0..(q_val - 1) |->
     IF a = b THEN v[a] ELSE CZero]]

\* the diagonal rolled the other way along axis 1
roll_axis1_alt(v, i, q_val) ==
  [a \in 0..(q_val - 1) |-> [b \in 0..(q_val - 1) |->
     IF a = (b + i) % q_val THEN v[a] ELSE CZero]]

\* np.roll(np.diag(v), i, axis=1): v[m] at row m, column (m + i) % q
roll_axis1(v, i, q_val) ==
  [a \in 0..(q_val - 1) |-> [b \in 0..(q_val - 1) |->
     IF b = (a + i) % q_val THEN v[a] ELSE CZero]]

roll_conj_axis0_alt(v, i, q_val) ==
  [a \in 0..(q_val - 1) |-> [b \in 0..(q_val - 1) |->
     IF a = (b + i) % q_val THEN v[b] ELSE CZero]]

\* np.roll(np.diag(np.conj(v)), i, axis=0): conj(v[m]) at row (m + i) % q,
\* column m
roll_conj_axis0(v, i, q_val) ==
  [a \in 0..(q_val - 1) |-> [b \in 0..(q_val - 1) |->
     IF a = (b + i) % q_val THEN np_conj(v[b]) ELSE CZero]]

MAdd(A, B, q_val) ==
  [a \in 0..(q_val - 1) |-> [b \in 0..(q_val - 1) |-> CAdd(A[a][b], B[a][b])]]

RECURSIVE MSum(_, _)
MSum(Ms, q_val) ==
  IF Ms = <<>> THEN MZero(q_val) ELSE MAdd(Head(Ms), MSum(Tail(Ms), q_val), q_val)

\* [i for i in m_values if i >= 0]
pos_m_vals(vgl) ==
  SelectSeq([g \in 1..Len(vgl) |-> vgl[g].m], LAMBDA i : i >= 0)

\* the position (from 1) of vec_group_list[len(vec_group_list)//2 + idx],
\* idx counted from 0; at i == 0 the code leaves idx out
group_index(vgl, idx, i) ==
  IF i = 0 THEN Len(vgl) \div 2 + 1 ELSE Len(vgl) \div 2 + idx + 1

\* the band of offset i in the single-particle branch
band_basis1(t_val, p_val, q_val, vgl, k, idx, i) ==
  LET grp == vgl[group_index(vgl, idx, i)].paths
  IN [m \in 0..(q_val - 1) |->
        diag_func(1, t_val, p_val, q_val, grp, k, (m + i) % q_val)]

\* upper_diag_func(basis, nphi, m_val, k_val_val, i_val) of the other branch
upper_diag_func(basis, p_val, q_val, vgl, m_val, k, i_val) ==
  LET grps  == SelectSeq(vgl, LAMBDA val : val.m = i_val)
      pairs == Flatten([g \in 1..Len(grps) |-> grps[g].paths])
  IN CSum([c \in 1..Len(pairs) |->
       LET val2 == pairs[c]
       IN zeta(peierls_factor(basis, p_val, q_val, <<val2[1].m, val2[1].n>>,
                              (m_val + val2[1].m_init) % (q_val + 1))
               + plane_wave(val2[1].x, val2[1].y, k)
               + peierls_factor(basis, p_val, q_val, <<val2[2].m, val2[2].n>>,
                                (m_val + val2[2].m_init) % (q_val + 1))
               + plane_wave(val2[2].x, val2[2].y, k))])

band_basis2(basis, p_val, q_val, vgl, k, i) ==
  [m \in 0..(q_val - 1) |->
     upper_diag_func(basis, p_val, q_val, vgl, (m + i) % q_val, k, i)]

\* what one turn of the loop over the non-negative m adds to the matrix
band_terms(basis, t_val, p_val, q_val, vgl, k, idx, i) ==
  IF basis = 1
  THEN LET v == band_basis1(t_val, p_val, q_val, vgl, k, idx, i)
       IN IF i = 0 THEN np_diag(v, q_val)
          ELSE MAdd(roll_axis1(v, i, q_val), roll_conj_axis0(v, i, q_val), q_val)
  ELSE LET v == band_basis2(basis, p_val, q_val, vgl, k, i)
       IN MAdd(roll_axis1(v, i, q_val), roll_conj_axis0(v, i, q_val), q_val)

\* the exception the loop raises, "ok" when it raises none
Hamiltonian_status(basis, q_val, vgl) ==
  LET pos == pos_m_vals(vgl)
  IN IF pos = <<>> \/ q_val = 0 THEN "ok"
     ELSE IF basis = 1
     THEN IF \E c \in 1..Len(pos) : group_index(vgl, c - 1, pos[c]) > Len(vgl)
          THEN "IndexError" ELSE "ok"
     ELSE IF peierls_area(basis) = 0 THEN "ValueError"
     ELSE IF \E g \in 1..Len(vgl) : vgl[g].m >= 0 /\
               \E c \in 1..Len(vgl[g].paths) : Len(vgl[g].paths[c]) < 2
          THEN "IndexError" ELSE "ok"

Hamiltonian(basis, t_val, p_val, q_val, vgl, k) ==
  LET pos == pos_m_vals(vgl)
      st  == Hamiltonian_status(basis, q_val, vgl)
  IN IF st # "ok" THEN [status |-> st, H |-> <<>>]
     ELSE [status |-> "ok",
           H |-> MSum([c \in 1..Len(pos) |->
                         band_terms(basis, t_val, p_val, q_val, vgl, k, c - 1, pos[c])],
                      q_val)]

(***************************************************************************)
(* _principal(z) of band_structure.py.  z is <<re, im>> with im in units   *)
(* of pi/PiUnits, so that pi and 2*pi are the integers PiUnits and         *)
(* 2*PiUnits and the float operations of the code are exact.               *)
(***************************************************************************)
PiUnits == 2

np_pi == PiUnits

principal(z) ==
  LET re == z[1]
      im == z[2]
  IN IF im <= -np_pi
     THEN <<re, np_pi - (Abs(im + np_pi) % (2 * np_pi))>>
     ELSE IF im > np_pi
     THEN <<re, -np_pi + (Abs(im + np_pi) % (2 * np_pi))>>
     ELSE z

(***************************************************************************)
(* berry_curv(_eigenvectors, _band, _idx_x, _idx_y, _group_size, method).  *)
(* Eigenvector components are Gaussian integers <<re, im>>.  The array     *)
(* _eigenvectors[:, band, x, y] is given by a field descriptor:            *)
(*   constant  the same vector v for every band and grid point             *)
(*   texture   band b at (x, y) is (1, z) with z turning with the point    *)
(***************************************************************************)
\* samples per direction of the momentum grid
NumSamples == 2

\* bands (and components of an eigenvector)
NumBands == 2

GMul(u, v) == <<u[1] * v[1] - u[2] * v[2], u[1] * v[2] + u[2] * v[1]>>

GAdd(u, v) == <<u[1] + v[1], u[2] + v[2]>>

GSub(u, v) == <<u[1] - v[1], u[2] - v[2]>>

GConj(u) == <<u[1], -u[2]>>

texture_z(b, x, y) ==
  IF x = 0 /\ y = 0 THEN <<b, 0>>
  ELSE IF y = 0 THEN <<1, b>>
  ELSE IF x = 0 THEN <<0, 1>>
  ELSE <<1, 1 + b>>

\* a vector of NumBands components from its first two, the others 0
pad(v) == [c \in 1..NumBands |-> IF c <= 2 THEN v[c] ELSE <<0, 0>>]

eigenvector(field, b, x, y) ==
  IF field.kind = "constant" THEN pad(field.v)
  ELSE pad(<< <<1, 0>>, texture_z(b, x, y) >>)

\* whether _eigenvectors[:, b, x, y] is inside the array
in_field(b, x, y) ==
  b \in 0..(NumBands - 1) /\ x \in 0..(NumSamples - 1) /\ y \in 0..(NumSamples - 1)

RECURSIVE GSum(_)
GSum(us) == IF us = <<>> THEN <<0, 0>> ELSE GAdd(Head(us), GSum(Tail(us)))

vdot_alt(vec1, vec2) ==
  GSum([c \in 1..Len(vec1) |-> GMul(vec1[c], vec2[c])])

\* np.conj(vec1).dot(vec2)
vdot(vec1, vec2) ==
  GSum([c \in 1..Len(vec1) |-> GMul(GConj(vec1[c]), vec2[c])])

\* link_matrix[i, j] of _U(var_num, ...)
link_entry(var_num, field, band, x, y, i, j) ==
  vdot(eigenvector(field, band + i, x, y),
       IF var_num = 1 THEN eigenvector(field, band + j, x + 1, y)
       ELSE eigenvector(field, band + j, x, y + 1))

\* the matrix without its first row and its column c
minor(M, c, n) ==
  [a \in 1..(n - 1) |-> [b \in 1..(n - 1) |-> M[a + 1][IF b < c THEN b ELSE b + 1]]]

\* np.linalg.det of an n-by-n matrix, by expansion along the first row; the
\* determinant of the 0-by-0 matrix is 1
RECURSIVE det(_, _)
det(M, n) ==
  IF n = 0 THEN <<1, 0>>
  ELSE GSum([c \in 1..n |->
               LET term == GMul(M[1][c], det(minor(M, c, n), n - 1))
               IN IF c % 2 = 1 THEN term ELSE GSub(<<0, 0>>, term)])

\* _U: np.linalg.det(link_matrix), for var_num in {1, 2}
U(var_num, field, band, x, y, group_size) ==
  det([i \in 1..group_size |-> [j \in 1..group_size |->
         link_entry(var_num, field, band, x, y, i - 1, j - 1)]], group_size)

\* the elements <<band, x, y>> of the array that _U reads as vec1 and vec2
U_reads(var_num, band, x, y, group_size) ==
  {<<band + i, x, y>> : i \in 0..(group_size - 1)}
    \cup (IF var_num = 1 THEN {<<band + j, x + 1, y>> : j \in 0..(group_size - 1)}
          ELSE IF var_num = 2 THEN {<<band + j, x, y + 1>> : j \in 0..(group_size - 1)}
          ELSE {})

\* _U without the test of var_num
U_status_alt(var_num, band, x, y, group_size) ==
  IF \A e \in U_reads(var_num, band, x, y, group_size) : in_field(e[1], e[2], e[3])
  THEN "ok"
  ELSE "IndexError"

\* how _U ends: in the first turn of the loops vec1 is read, then var_num is
\* tested; with no band in the group the loops do not run
U_status(var_num, band, x, y, group_size) ==
  IF group_size = 0 THEN "ok"
  ELSE IF ~in_field(band, x, y) THEN "IndexError"
  ELSE IF var_num \notin {1, 2} THEN "ValueError"
  ELSE IF \A e \in U_reads(var_num, band, x, y, group_size) : in_field(e[1], e[2], e[3])
  THEN "ok"
  ELSE "IndexError"

\* the four link variables read for every method
berry_curv_reads_alt(band, x, y, group_size, method) ==
  U_reads(1, band, x, y, group_size) \cup U_reads(2, band, x + 1, y, group_size)
    \cup U_reads(1, band, x, y + 1, group_size) \cup U_reads(2, band, x, y, group_size)

\* the elements read by berry_curv when no read fails
berry_curv_reads(band, x, y, group_size, method) ==
  IF method = 1 THEN
    U_reads(1, band, x, y, group_size) \cup U_reads(2, band, x + 1, y, group_size)
      \cup U_reads(1, band, x, y + 1, group_size) \cup U_reads(2, band, x, y, group_size)
  ELSE IF method = 2 /\ group_size = 1 THEN
    {<<band, x, y>>, <<band, x + 1, y>>, <<band, x, y + 1>>}
  ELSE {}

\* every element berry_curv reads lies inside the array
reads_inside(band, x, y, group_size, method) ==
  \A e \in berry_curv_reads(band, x, y, group_size, method) : in_field(e[1], e[2], e[3])

(***************************************************************************)
(* The value returned is kept exactly as                                   *)
(*     Berry_curv = value - Arg(arg_of)      (Arg in (-pi, pi], Arg(0)=0)  *)
(* with nan set when the product holds the inverse of a zero link          *)
(* variable.  Method 1: U1*U2/(U3*U4) is a positive multiple of            *)
(* U1*U2*conj(U3)*conj(U4), which is arg_of, and value is 0.               *)
(* Method 2: value is -2*Im(chi) and arg_of is 1.                          *)
(***************************************************************************)
berry_curv(field, band, x, y, group_size, method) ==
  IF method = 1 THEN
    IF ~reads_inside(band, x, y, group_size, method)
    THEN [status |-> "IndexError"]
    ELSE LET U1 == U(1, field, band, x, y, group_size)
             U2 == U(2, field, band, x + 1, y, group_size)
             U3 == U(1, field, band, x, y + 1, group_size)
             U4 == U(2, field, band, x, y, group_size)
         IN [status |-> "ok",
             nan |-> (U3 = <<0, 0>> \/ U4 = <<0, 0>>),
             arg_of |-> GMul(GMul(U1, U2), GMul(GConj(U3), GConj(U4))),
             value |-> 0,
             reads |-> berry_curv_reads(band, x, y, group_size, method)]
  ELSE IF method = 2 THEN
    IF group_size = 1 THEN
      IF ~reads_inside(band, x, y, 1, method)
      THEN [status |-> "IndexError"]
      ELSE LET vec  == eigenvector(field, band, x, y)
               vec1 == eigenvector(field, band, x + 1, y)
               vec2 == eigenvector(field, band, x, y + 1)
               chi  == GSub(vdot(vec1, vec2), GMul(vdot(vec1, vec), vdot(vec, vec2)))
           IN [status |-> "ok", nan |-> FALSE, arg_of |-> <<1, 0>>,
               value |-> -2 * chi[2],
               reads |-> berry_curv_reads(band, x, y, group_size, method)]
    ELSE [status |-> "ValueError"]
  ELSE [status |-> "ValueError"]

\* _U called on its own: the link variable, or the exception
link_variable(var_num, field, band, x, y, group_size) ==
  IF U_status(var_num, band, x, y, group_size) = "ok"
  THEN [status |-> "ok",
        value |-> U(var_num, field, band, x, y, group_size),
        reads |-> U_reads(var_num, band, x, y, group_size)]
  ELSE [status |-> U_status(var_num, band, x, y, group_size)]

(***************************************************************************)
(* geom_tensor(_eigenvectors, _band, _idx_x, _idx_y, _group_size): the     *)
(* 2-by-2 tensor R[mu][nu] = <u_mu|u_nu> - <u_mu|u><u|u_nu>, u_1 and u_2   *)
(* the eigenvectors at (x+1, y) and (x, y+1).                              *)
(***************************************************************************)
geom_tensor_reads(band, x, y, group_size) ==
  IF group_size = 1
  THEN {<<band, x, y>>, <<band, x + 1, y>>, <<band, x, y + 1>>}
  ELSE {}

tensor_entry(vec, vmu, vnu) ==
  GSub(vdot(vmu, vnu), GMul(vdot(vmu, vec), vdot(vec, vnu)))

geom_tensor(field, band, x, y, group_size) ==
  IF group_size = 1 THEN
    IF \E e \in geom_tensor_reads(band, x, y, group_size) : ~in_field(e[1], e[2], e[3])
    THEN [status |-> "IndexError"]
    ELSE LET vec  == eigenvector(field, band, x, y)
             vec1 == eigenvector(field, band, x + 1, y)
             vec2 == eigenvector(field, band, x, y + 1)
         IN [status |-> "ok",
             tensor |-> << <<tensor_entry(vec, vec1, vec1), tensor_entry(vec, vec1, vec2)>>,
                           <<tensor_entry(vec, vec2, vec1), tensor_entry(vec, vec2, vec2)>> >>,
             reads |-> geom_tensor_reads(band, x, y, group_size)]
  ELSE [status |-> "ValueError"]

(***************************************************************************)
(* Hofstadter of models/hofstadter.py.  A number of unit_cell is           *)
(* (n/d) * sqrt(3)^s, kept as [n, d, s]; reciprocal vectors are in units   *)
(* of 2*pi.                                                                *)
(***************************************************************************)
Num(n, d, s) == [n |-> n, d |-> d, s |-> IF n = 0 THEN 0 ELSE s]

\* b1 / (2*pi)
unit_cell_b1(self) ==
  IF self.lat = "square" THEN <<Num(1, self.a0 * self.q, 0), Num(0, 1, 0)>>
  ELSE <<Num(1, self.a0 * self.q, 0), Num(-self.q, self.a0, -1)>>

unit_cell(self) ==
  IF self.lat = "square" THEN
    [status |-> "ok",
     num_bands_val |-> self.q,
     avec_val |-> << <<Num(self.a0 * self.q, 1, 0), Num(0, 1, 0)>>,
                     <<Num(0, 1, 0), Num(self.a0, 1, 0)>> >>,
     bvec_val |-> << unit_cell_b1(self),
                     <<Num(0, 1, 0), Num(1, self.a0, 0)>> >>,
     sym_points_val |-> << <<Num(0, 1, 0), Num(0, 1, 0)>>,
                           <<Num(0, 1, 0), Num(1, 2, 0)>>,
                           <<Num(1, 2, 0), Num(1, 2, 0)>>,
                           <<Num(1, 2, 0), Num(0, 1, 0)>> >>]
  ELSE IF self.lat = "triangular" THEN
    [status |-> "ok",
     num_bands_val |-> self.q,
     avec_val |-> << <<Num(self.a0 * self.q, 1, 0), Num(0, 1, 0)>>,
                     <<Num(self.a0, 2, 0), Num(self.a0, 2, 1)>> >>,
     bvec_val |-> << unit_cell_b1(self),
                     <<Num(0, 1, 0), Num(2, self.a0, -1)>> >>,
     sym_points_val |-> << <<Num(0, 1, 0), Num(0, 1, 0)>>,
                           <<Num(0, 1, 0), Num(1, 2, 0)>>,
                           <<Num(1, 2, 0), Num(1, 2, 0)>>,
                           <<Num(1, 2, 0), Num(0, 1, 0)>> >>]
  \* no branch has bound avec_val, the first name the return statement reads
  ELSE [status |-> "UnboundLocalError", names |-> "avec_val"]

\* parameters of def nearest_neighbor_finder, none with a default
finder_params == 6

\* positional arguments of the call in Hofstadter.hamiltonian
finder_args == 2

\* Hofstadter.hamiltonian(k_val): the call of fm.nearest_neighbor_finder is
\* made first; stages lists the functions that ran to their return
Hofstadter_hamiltonian(self, k_val) ==
  IF finder_args # finder_params
  THEN [status |-> "TypeError", stages |-> <<>>, H |-> <<>>]
  ELSE [status |-> "TypeError", stages |-> <<"nearest_neighbor_finder">>, H |-> <<>>]

(***************************************************************************)
(* The driver.                                                             *)
(***************************************************************************)
\* hopping amplitudes: t_list[n] is 0 (order n+1 not requested) or nonzero
Amplitudes == {0, 1, -2}

RECURSIVE SeqsUpTo(_, _)
SeqsUpTo(S, n) ==
  IF n = 0 THEN {<<>>}
  ELSE LET shorter == SeqsUpTo(S, n - 1)
       IN shorter \cup {Append(s, a) : s \in {u \in shorter : Len(u) = n - 1}, a \in S}

TLists == SeqsUpTo(Amplitudes, MaxOrder)

\* reference cells (m_init, n_init): the origin and three neighbouring
\* sites, one of them on the negative side
RefCells(lat) ==
  IF lat = "square" THEN {<<0, 0>>, <<1, 0>>, <<0, 1>>, <<-1, 0>>}
  ELSE {<<0, 0>>, <<2, 0>>, <<1, 1>>, <<-1, -1>>}

\* flux fractions p/q, coprime
Flux == {<<1, 1>>, <<1, 2>>, <<1, 3>>, <<2, 3>>, <<1, 4>>, <<3, 4>>}

\* momenta k = (2*pi/24) * (k[1], k[2])
Momenta == {<<0, 0>>, <<1, 3>>}

\* basis multiplicities handed to Hamiltonian
Bases == {1, 2, 3}

\* arguments of _principal: im from -4*pi to 4*pi
PrincipalArgs == {<<re, im>> : re \in {0, 1}, im \in (-4 * PiUnits)..(4 * PiUnits)}

\* eigenvector fields
Fields ==
  {[kind |-> "constant", v |-> v] :
     v \in { << <<1, 0>>, <<0, 0>> >>, << <<1, 1>>, <<0, 1>> >>,
             << <<2, -1>>, <<1, 2>> >> }}
  \cup {[kind |-> "texture", v |-> << <<1, 0>>, <<0, 0>> >>]}

\* indices into the array of eigenvectors
Bands == 0..(NumBands - 1)

Samples == 0..(NumSamples - 1)

\* _group_size: no band, one band, and groups up to one band more than the
\* array holds
GroupSizes == 0..(NumBands + 1)

\* method: 1 and 2, and one that is not a method
Methods == {1, 2, 3}

\* var_num: 1 and 2, and two that are no link variable
LinkVars == {0, 1, 2, 3}

\* Hofstadter objects
Models ==
  {[p |-> 1, q |-> q, a0 |-> a0, t |-> <<1>>, lat |-> lat] :
     q \in 1..3, a0 \in 1..2,
     lat \in {"square", "triangular", "bravais", "honeycomb", "kagome"}}

Init ==
  /\ pc = "start"
  /\ call = [fn |-> "none"]
  /\ ret = [status |-> "none"]
  /\ data_array = <<>>
  /\ vec_group_list = <<>>
  /\ eigenvectors = [kind |-> "none"]

\* the first table: nearest_neighbor_finder for one reference cell
Finder ==
  /\ pc = "start"
  /\ \E lat \in Lattices, t_list \in TLists :
     \E ref \in RefCells(lat) :
       LET res == nearest_neighbor_finder(lat, t_list, ref[1], ref[2])
       IN /\ call' = [fn |-> "nearest_neighbor_finder", lat |-> lat,
                      t_list |-> t_list, refs |-> <<ref>>]
          /\ ret' = res
          /\ data_array' = res.data
          /\ pc' = IF res.status = "ok" THEN "enumerated" ELSE "done"
  /\ UNCHANGED <<vec_group_list, eigenvectors>>

\* a further table for another reference cell, stacked under the table of
\* the origin cell
FinderStack ==
  /\ pc = "enumerated"
  /\ Len(call.refs) < MaxTables
  /\ call.refs[1] = <<0, 0>>
  /\ \E ref \in RefCells(call.lat) :
       /\ \A i \in 1..Len(call.refs) : call.refs[i] # ref
       /\ LET res == nearest_neighbor_finder(call.lat, call.t_list, ref[1], ref[2])
          IN /\ call' = [call EXCEPT !.refs = Append(call.refs, ref)]
             /\ ret' = res
             /\ data_array' = data_array \o res.data
             /\ pc' = IF res.status = "ok" THEN "enumerated" ELSE "done"
  /\ UNCHANGED <<vec_group_list, eigenvectors>>

\* nearest_neighbor_sorter on the stacked table
Sorter ==
  /\ pc = "enumerated"
  /\ LET res == nearest_neighbor_sorter(data_array)
     IN /\ call' = [call EXCEPT !.fn = "nearest_neighbor_sorter"]
        /\ ret' = [status |-> "ok"]
        /\ vec_group_list' = res
        /\ pc' = "grouped"
  /\ UNCHANGED <<data_array, eigenvectors>>

\* Hamiltonian on the groups, with the hopping list of the tables
Assemble ==
  /\ pc = "grouped"
  /\ \E basis \in Bases, nphi \in Flux, k_val \in Momenta :
       /\ representable(basis, nphi[2])
       /\ call' = [fn |-> "Hamiltonian", lat |-> call.lat, t_list |-> call.t_list,
                   refs |-> call.refs, basis |-> basis, p_val |-> nphi[1],
                   q_val |-> nphi[2], k_val |-> k_val]
       /\ ret' = Hamiltonian(basis, call.t_list, nphi[1], nphi[2],
                             vec_group_list, k_val)
       /\ pc' = "done"
  /\ UNCHANGED <<data_array, vec_group_list, eigenvectors>>

Principal ==
  /\ pc = "start"
  /\ \E z \in PrincipalArgs :
       /\ call' = [fn |-> "_principal", z |-> z]
       /\ ret' = [status |-> "ok", z |-> principal(z)]
  /\ pc' = "done"
  /\ UNCHANGED <<data_array, vec_group_list, eigenvectors>>

\* the caller's array of eigenvectors
Sample ==
  /\ pc = "start"
  /\ eigenvectors' \in Fields
  /\ pc' = "sampled"
  /\ UNCHANGED <<call, ret, data_array, vec_group_list>>

BerryCurv ==
  /\ pc = "sampled"
  /\ \E band \in Bands, x \in Samples, y \in Samples,
        group_size \in GroupSizes, method \in Methods :
       /\ call' = [fn |-> "berry_curv", field |-> eigenvectors, band |-> band,
                   x |-> x, y |-> y, group_size |-> group_size, method |-> method]
       /\ ret' = berry_curv(eigenvectors, band, x, y, group_size, method)
  /\ pc' = "done"
  /\ UNCHANGED <<data_array, vec_group_list, eigenvectors>>

GeomTensor ==
  /\ pc = "sampled"
  /\ \E band \in Bands, x \in Samples, y \in Samples, group_size \in GroupSizes :
       /\ call' = [fn |-> "geom_tensor", field |-> eigenvectors, band |-> band,
                   x |-> x, y |-> y, group_size |-> group_size]
       /\ ret' = geom_tensor(eigenvectors, band, x, y, group_size)
  /\ pc' = "done"
  /\ UNCHANGED <<data_array, vec_group_list, eigenvectors>>

\* _U on its own, for a group of at least one band
LinkVariable ==
  /\ pc = "sampled"
  /\ \E var_num \in LinkVars, band \in Bands, x \in Samples, y \in Samples,
        group_size \in GroupSizes \ {0} :
       /\ call' = [fn |-> "_U", field |-> eigenvectors, var_num |-> var_num,
                   band |-> band, x |-> x, y |-> y, group_size |-> group_size]
       /\ ret' = link_variable(var_num, eigenvectors, band, x, y, group_size)
  /\ pc' = "done"
  /\ UNCHANGED <<data_array, vec_group_list, eigenvectors>>

UnitCell ==
  /\ pc = "start"
  /\ \E self \in Models :
       /\ call' = [fn |-> "unit_cell", self |-> self]
       /\ ret' = unit_cell(self)
  /\ pc' = "done"
  /\ UNCHANGED <<data_array, vec_group_list, eigenvectors>>

ModelHamiltonian ==
  /\ pc = "start"
  /\ \E self \in Models, k_val \in Momenta :
       /\ call' = [fn |-> "hamiltonian", self |-> self, k_val |-> k_val]
       /\ ret' = Hofstadter_hamiltonian(self, k_val)
  /\ pc' = "done"
  /\ UNCHANGED <<data_array, vec_group_list, eigenvectors>>

Next ==
  \/ Finder
  \/ FinderStack
  \/ Sorter
  \/ Assemble
  \/ Principal
  \/ Sample
  \/ BerryCurv
  \/ GeomTensor
  \/ LinkVariable
  \/ UnitCell
  \/ ModelHamiltonian

Spec == Init /\ [][Next]_vars

(***************************************************************************)
(* Properties.                                                             *)
(***************************************************************************)
Returned(fn) == call.fn = fn /\ ret.status = "ok"

Rows == 0..(call.q_val - 1)

\* C1: for a valid configuration (a single-site basis with the table of one
\* reference cell, or the two-site basis) the matrix Hamiltonian returns
\* equals its conjugate transpose: H[a][b] = conj(H[b][a]) for all a, b in
\* 0..q-1, the diagonal and overlapping bands (2i = q) included.
C1_Hermitian ==
  (Returned("Hamiltonian") /\ (call.basis = 1 => Len(call.refs) = 1))
    => \A a \in Rows, b \in Rows : ret.H[a][b] = np_conj(ret.H[b][a])

\* a returned q = 2 matrix whose band of offset 1 overlaps its conjugate
\* partner, with an off-diagonal entry that is not real and a diagonal one
\* that is not zero
C1_Witness ==
  /\ Returned("Hamiltonian") /\ call.basis = 1 /\ call.refs = << <<0, 0>> >>
  /\ call.q_val = 2
  /\ \E g \in 1..Len(vec_group_list) : vec_group_list[g].m = 1
  /\ ret.H[0][1] # np_conj(ret.H[0][1])
  /\ ret.H[0][0] # CZero

\* C2: _principal returns an imaginary part in (-pi, pi] and leaves an
\* argument whose imaginary part is already there unchanged.
C2_PrincipalBranch ==
  call.fn = "_principal" =>
    /\ -np_pi < ret.z[2] /\ ret.z[2] <= np_pi
    /\ ret.z[1] = call.z[1]
    /\ (-np_pi < call.z[2] /\ call.z[2] <= np_pi) => ret.z = call.z

FirstShellCall ==
  /\ Returned("nearest_neighbor_finder")
  /\ call.lat = "square" /\ call.t_list = <<1>> /\ call.refs = << <<0, 0>> >>

Coordinates(data) == {<<data[i].m, data[i].n>> : i \in 1..Len(data)}

ExactAngles(data) ==
  {IF data[i].angle.exact THEN data[i].angle.lo ELSE 99 : i \in 1..Len(data)}

\* C3 (amended): on the square lattice, reference cell (0,0), hopping list
\* [1], the finder returns exactly 4 vectors of radius a0 and shell 1, at
\* (1,0), (0,1), (-1,0), (0,-1), and their angles are the values of
\* np.angle, in (-pi, pi]: 0, pi/2, pi and -pi/2 (in quarters of pi: 0, 2,
\* 4, -2).
C3_FirstShell ==
  FirstShellCall =>
    /\ Len(ret.data) = 4
    /\ \A i \in 1..4 : ret.data[i].r2 = 1 /\ ret.data[i].NN = 1
    /\ Coordinates(ret.data) = {<<1, 0>>, <<0, 1>>, <<-1, 0>>, <<0, -1>>}
    /\ \A i \in 1..4 :
         ret.data[i].angle =
           [lo |-> (CASE <<ret.data[i].m, ret.data[i].n>> = <<1, 0>> -> 0
                      [] <<ret.data[i].m, ret.data[i].n>> = <<0, 1>> -> 2
                      [] <<ret.data[i].m, ret.data[i].n>> = <<-1, 0>> -> 4
                      [] OTHER -> -2),
            exact |-> TRUE]

C3_Witness == FirstShellCall /\ pc = "enumerated" /\ Len(data_array) = 4

\* C3 as stated: the same, with the angles {0, pi/2, pi, 3*pi/2} (in
\* quarters of pi: 0, 2, 4, 6).
C3_Original ==
  FirstShellCall =>
    /\ Len(ret.data) = 4
    /\ \A i \in 1..4 : ret.data[i].r2 = 1 /\ ret.data[i].NN = 1
    /\ Coordinates(ret.data) = {<<1, 0>>, <<0, 1>>, <<-1, 0>>, <<0, -1>>}
    /\ ExactAngles(ret.data) = {0, 2, 4, 6}

\* C4: every retained vector has a shell index that is a requested order,
\* two retained vectors share the index exactly when they share the radius,
\* a larger index means a strictly larger radius, and the zero vector is
\* not retained.
C4_Shells ==
  Returned("nearest_neighbor_finder") =>
    \A i \in 1..Len(ret.data) :
      /\ ret.data[i].NN \in Range(numb_list(call.t_list))
      /\ ret.data[i].r2 # 0
      /\ ~(ret.data[i].x = 0 /\ ret.data[i].y = 0)
      /\ \A j \in 1..Len(ret.data) :
           /\ (ret.data[i].NN = ret.data[j].NN) <=> (ret.data[i].r2 = ret.data[j].r2)
           /\ (ret.data[i].NN > ret.data[j].NN) => (ret.data[i].r2 > ret.data[j].r2)

\* two shells retained around a reference cell other than the origin
C4_Witness ==
  /\ Returned("nearest_neighbor_finder")
  /\ call.refs # << <<0, 0>> >>
  /\ {ret.data[i].NN : i \in 1..Len(ret.data)} = {1, 2}

\* the non-backtracking rows of the table handed to the sorter
NonBacktrack == {i \in 1..Len(data_array) : ~backtrack(data_array[i])}

DoublePairs ==
  {ij \in NonBacktrack \X NonBacktrack :
     origin(data_array[ij[1]]) /\ continues(data_array[ij[1]], data_array[ij[2]])}

\* the valid hopping paths: the pairs when there is one, else the origin rows
ValidPaths ==
  IF DoublePairs # {}
  THEN {<<data_array[ij[1]], data_array[ij[2]]>> : ij \in DoublePairs}
  ELSE {<<data_array[i]>> : i \in {n \in NonBacktrack : origin(data_array[n])}}

\* the net translation index of a path
NetIndex(path) ==
  IF Len(path) = 2 THEN pair_mtot(path[1], path[2]) ELSE path[1].m_tot

\* the places (group, position) where a path is returned
Places(path) ==
  {gc \in (1..Len(vec_group_list)) \X (1..Len(data_array) * Len(data_array)) :
     /\ gc[2] <= Len(vec_group_list[gc[1]].paths)
     /\ vec_group_list[gc[1]].paths[gc[2]] = path}

ReturnedPaths ==
  UNION {Range(vec_group_list[g].paths) : g \in 1..Len(vec_group_list)}

\* C5: every valid path is returned in exactly one group, once; no returned
\* path holds a backtracking vector; every group holds the paths of its own
\* net translation index; the groups are in strictly increasing order of the
\* index and there are as many as distinct indices.
C5_PathGroups ==
  call.fn = "nearest_neighbor_sorter" =>
    /\ \A path \in ValidPaths : Cardinality(Places(path)) = 1
    /\ ReturnedPaths \subseteq ValidPaths
    /\ \A path \in ReturnedPaths : \A c \in 1..Len(path) : ~backtrack(path[c])
    /\ \A g \in 1..Len(vec_group_list) :
         \A path \in Range(vec_group_list[g].paths) :
           NetIndex(path) = vec_group_list[g].m
    /\ \A g \in 1..(Len(vec_group_list) - 1) :
         vec_group_list[g].m < vec_group_list[g + 1].m
    /\ Len(vec_group_list) = Cardinality({NetIndex(path) : path \in ValidPaths})

\* a stacked table with a backtracking row, paired paths and several groups
C5_Witness ==
  /\ call.fn = "nearest_neighbor_sorter"
  /\ DoublePairs # {}
  /\ NonBacktrack # 1..Len(data_array)
  /\ Len(vec_group_list) >= 3
  /\ \E g \in 1..Len(vec_group_list) : Len(vec_group_list[g].paths) >= 2

ConstantFieldCall ==
  /\ call.fn = "berry_curv"
  /\ call.field.kind = "constant"
  /\ reads_inside(call.band, call.x, call.y, call.group_size, call.method)

\* the value returned is exactly zero
BerryZero(r) ==
  /\ r.status = "ok" /\ ~r.nan
  /\ r.value = 0 /\ r.arg_of[2] = 0 /\ r.arg_of[1] >= 0

\* C6 (amended): on a field that holds the same (nonzero) vector at every
\* grid point and for every band, berry_curv returns exactly zero at every
\* plaquette inside the grid for a group of one band, with method 1 and with
\* method 2; with method 1 and a group of two bands the link matrices are
\* singular and the value is NaN.
C6_TrivialField ==
  ConstantFieldCall =>
    /\ (call.group_size = 1 /\ call.method \in {1, 2}) => BerryZero(ret)
    /\ (call.group_size = 2 /\ call.method = 1) => (ret.status = "ok" /\ ret.nan)

C6_Witness ==
  /\ ConstantFieldCall /\ call.group_size = 1 /\ call.method = 1
  /\ call.field.v = << <<1, 1>>, <<0, 1>> >>
  /\ BerryZero(ret)

\* C6 as stated: zero for method 1 (any group) and for method 2 with a
\* group of one band.
C6_Original ==
  (ConstantFieldCall /\ (call.method = 1 \/ (call.method = 2 /\ call.group_size = 1)))
    => BerryZero(ret)

\* C7: Hofstadter.hamiltonian(k) returns a q-by-q matrix, having run the
\* finder, the sorter and the assembler in that order.
C7_ModelHamiltonian ==
  call.fn = "hamiltonian" =>
    /\ ret.status = "ok"
    /\ ret.stages = <<"nearest_neighbor_finder", "nearest_neighbor_sorter", "Hamiltonian">>
    /\ DOMAIN ret.H = 0..(call.self.q - 1)

\* u . v for vectors of numbers (n/d)*sqrt(3)^s, when it is the rational e
DotIs(u, v, e) ==
  LET s1 == IF u[1].n * v[1].n = 0 THEN 0 ELSE u[1].s + v[1].s
      s2 == IF u[2].n * v[2].n = 0 THEN 0 ELSE u[2].s + v[2].s
  IN /\ s1 = 0 /\ s2 = 0
     /\ u[1].n * v[1].n * u[2].d * v[2].d + u[2].n * v[2].n * u[1].d * v[1].d
          = e * u[1].d * v[1].d * u[2].d * v[2].d

\* a point of numbers equals the point (h1/2, h2/2)
PointIs(pt, h1, h2) ==
  /\ pt[1].s = 0 /\ 2 * pt[1].n = h1 * pt[1].d
  /\ pt[2].s = 0 /\ 2 * pt[2].n = h2 * pt[2].d

\* C8: on the square and the triangular lattice unit_cell returns q bands,
\* the four symmetry points and vectors with a_i . b_j = 2*pi if i = j and
\* 0 otherwise (b is kept in units of 2*pi).
C8_UnitCell ==
  (call.fn = "unit_cell" /\ call.self.lat \in {"square", "triangular"}) =>
    /\ ret.status = "ok"
    /\ ret.num_bands_val = call.self.q
    /\ Len(ret.sym_points_val) = 4
    /\ PointIs(ret.sym_points_val[1], 0, 0) /\ PointIs(ret.sym_points_val[2], 0, 1)
    /\ PointIs(ret.sym_points_val[3], 1, 1) /\ PointIs(ret.sym_points_val[4], 1, 0)
    /\ \A i \in 1..2, j \in 1..2 :
         DotIs(ret.avec_val[i], ret.bvec_val[j], IF i = j THEN 1 ELSE 0)

\* C9: with no nonzero amplitude in the hopping list the finder fails, hands
\* back no table, and has generated no displacement vector when it fails.
C9_NoAmplitude ==
  (call.fn = "nearest_neighbor_finder" /\ \A i \in 1..Len(call.t_list) : call.t_list[i] = 0)
    => /\ ret.status = "IndexError"
       /\ ret.data = <<>> /\ ret.generated = 0
       /\ data_array = <<>> /\ pc = "done"

C9_Witness ==
  /\ call.fn = "nearest_neighbor_finder" /\ call.t_list = <<0, 0>>
  /\ ret.status = "IndexError" /\ ret.generated = 0

\* C10: for a basis multiplicity other than 1 or 2 Hamiltonian fails with
\* the ValueError of peierls_factor and returns no matrix, whatever the
\* groups; the area is 1 for basis 1 and 3 for basis 2.
C10_UnsupportedBasis ==
  /\ peierls_area(1) = 1 /\ peierls_area(2) = 3
  /\ (call.fn = "Hamiltonian" /\ call.basis \notin {1, 2})
       => (ret.status = "ValueError" /\ ret.H = <<>>)

\* the call raised and handed nothing back
Raised(err) == ret.status = err /\ DOMAIN ret = {"status"}

C12_UnsupportedLattice ==
  (call.fn = "unit_cell" /\ call.self.lat \notin {"square", "triangular"})
    => (ret.status = "ValueError" /\ ret.names = call.self.lat)

\* the non-negative net translation indices of the groups handed in
NonNegative == pos_m_vals(vec_group_list)

\* the band values v[0..q-1] of the c-th non-negative index
BandValues(c) ==
  IF call.basis = 1
  THEN band_basis1(call.t_list, call.p_val, call.q_val, vec_group_list,
                   call.k_val, c - 1, NonNegative[c])
  ELSE band_basis2(call.basis, call.p_val, call.q_val, vec_group_list,
                   call.k_val, NonNegative[c])

\* what the band of the c-th non-negative index puts at row a, column b:
\* v[a] when b = (a + i) mod q, and conj(v[b]) when a = (b + i) mod q
Placed(c, a, b) ==
  LET i == NonNegative[c]
      v == BandValues(c)
  IN IF i = 0 /\ call.basis = 1
     THEN IF a = b THEN v[a] ELSE CZero
     ELSE CAdd(IF b = (a + i) % call.q_val THEN v[a] ELSE CZero,
               IF a = (b + i) % call.q_val THEN np_conj(v[b]) ELSE CZero)

TargetCell(val) == val.m_init + val.m

\* C14: when some origin row has a continuation every returned path is a
\* pair (origin row, continuation) and its group's index is the target-cell
\* coordinate of the row of larger absolute coordinate, the continuation's
\* when the two are equal; otherwise every returned path is one origin row
\* and its group's index is that row's target-cell coordinate.
C14_NetIndex ==
  call.fn = "nearest_neighbor_sorter" =>
    \A g \in 1..Len(vec_group_list) :
      \A path \in Range(vec_group_list[g].paths) :
        IF DoublePairs # {}
        THEN /\ Len(path) = 2
             /\ origin(path[1]) /\ continues(path[1], path[2])
             /\ vec_group_list[g].m =
                  IF Abs(TargetCell(path[1])) > Abs(TargetCell(path[2]))
                  THEN TargetCell(path[1]) ELSE TargetCell(path[2])
        ELSE /\ Len(path) = 1
             /\ origin(path[1])
             /\ vec_group_list[g].m = TargetCell(path[1])

\* a pair whose two coordinates are 1 and -1, grouped under the
\* continuation's -1, next to a pair decided by the origin row
C14_Witness ==
  /\ call.fn = "nearest_neighbor_sorter"
  /\ \E g \in 1..Len(vec_group_list) :
       \E path \in Range(vec_group_list[g].paths) :
         /\ Len(path) = 2
         /\ TargetCell(path[1]) = 1 /\ TargetCell(path[2]) = -1
         /\ vec_group_list[g].m = -1
  /\ \E g \in 1..Len(vec_group_list) :
       \E path \in Range(vec_group_list[g].paths) :
         /\ Len(path) = 2
         /\ Abs(TargetCell(path[1])) > Abs(TargetCell(path[2]))
         /\ vec_group_list[g].m = TargetCell(path[1])

\* a table of one reference cell: single mode
C14_WitnessSingle ==
  /\ call.fn = "nearest_neighbor_sorter" /\ DoublePairs = {}
  /\ \E g \in 1..Len(vec_group_list) : vec_group_list[g].m = -1

\* the elements of bands band..band+g-1 at the given grid points
Corners(points) ==
  {<<call.band + i, pt[1], pt[2]>> :
     i \in 0..(call.group_size - 1), pt \in points}

\* the link variable var_num at (x, y) for the bands of the call
LinkAt(var_num, x, y) ==
  U(var_num, call.field, call.band, x, y, call.group_size)

\* C15: berry_curv with method 1 at (x, y) multiplies link-x at (x, y),
\* link-y at (x+1, y), the inverse of link-x at (x, y+1) and the inverse of
\* link-y at (x, y), and reads the bands of the group at the four corners
\* (x, y), (x+1, y), (x, y+1), (x+1, y+1) and nothing else; method 2 and
\* geom_tensor read (x, y), (x+1, y), (x, y+1) and nothing else; no call
\* changes the array of eigenvectors.
C15_Reads ==
  /\ [](/\ (Returned("berry_curv") /\ call.method = 1) =>
            /\ ret.reads = Corners({<<call.x, call.y>>, <<call.x + 1, call.y>>,
                                    <<call.x, call.y + 1>>, <<call.x + 1, call.y + 1>>})
            /\ ret.arg_of =
                 GMul(GMul(LinkAt(1, call.x, call.y), LinkAt(2, call.x + 1, call.y)),
                      GMul(GConj(LinkAt(1, call.x, call.y + 1)),
                           GConj(LinkAt(2, call.x, call.y))))
        /\ (Returned("berry_curv") /\ call.method = 2) =>
              ret.reads = Corners({<<call.x, call.y>>, <<call.x + 1, call.y>>,
                                   <<call.x, call.y + 1>>})
        /\ Returned("geom_tensor") =>
              ret.reads = Corners({<<call.x, call.y>>, <<call.x + 1, call.y>>,
                                   <<call.x, call.y + 1>>}))
  /\ [][pc = "sampled" => eigenvectors' = eigenvectors]_vars

\* method 1 on a two-band group of the turning field: eight elements read,
\* the diagonal neighbour among them
C15_Witness ==
  /\ Returned("berry_curv") /\ call.method = 1 /\ call.group_size = 2
  /\ call.field.kind = "texture"
  /\ Cardinality(ret.reads) = 8 /\ <<1, 1, 1>> \in ret.reads
  /\ eigenvectors = call.field

\* the position (from 1) in vec_group_list that the basis 1 branch reads
\* for the c-th non-negative index
Looked(c) == group_index(vec_group_list, c - 1, NonNegative[c])

\* C16: for basis 1 and every list of groups the sorter hands over, the
\* band of every non-negative index i is built from the group whose index
\* is i: the position len // 2 + idx is inside the list and holds the
\* group labelled i.
C16_GroupLookup ==
  (call.fn = "Hamiltonian" /\ call.basis = 1) =>
    \A c \in 1..Len(NonNegative) :
      /\ Looked(c) <= Len(vec_group_list)
      /\ vec_group_list[Looked(c)].m = NonNegative[c]

\* a window of the infinite square lattice that holds every vector of
\* radius up to MaxOrder + 1, one more than the highest order drawn
Window == (-(MaxOrder + 1))..(MaxOrder + 1)

\* the squared nonzero radii of the lattice, complete up to (MaxOrder + 1)^2
LatticeRadii == {x * x + y * y : x \in Window, y \in Window} \ {0}

\* the n-th smallest nonzero squared radius of the lattice, n <= MaxOrder
NthRadius(n) ==
  CHOOSE r \in LatticeRadii : Cardinality({u \in LatticeRadii : u < r}) = n - 1

\* the finder returned the table of the origin cell of the square lattice
SquareOriginCall ==
  /\ Returned("nearest_neighbor_finder")
  /\ call.lat = "square" /\ call.refs = << <<0, 0>> >>

\* C17: on the square lattice with reference cell (0,0) the vectors
\* returned, with their shell indices, are exactly the vectors of the
\* infinite lattice whose radius is the n-th smallest nonzero radius, for
\* the requested orders n, each with shell index n.
C17_RangeSufficient ==
  SquareOriginCall =>
    /\ {<<ret.data[i].x, ret.data[i].y, ret.data[i].NN>> : i \in 1..Len(ret.data)}
         = {v \in Window \X Window \X Range(numb_list(call.t_list)) :
              v[1] * v[1] + v[2] * v[2] = NthRadius(v[3])}
    /\ \A i \in 1..Len(ret.data) : \A j \in 1..Len(ret.data) :
         (i # j) => (ret.data[i].x # ret.data[j].x \/ ret.data[i].y # ret.data[j].y)

\* orders 1 and 2 requested (K = 2): the eight vectors of radius 1 and
\* sqrt(2) come back, and the grid's vectors of radius 2 and more do not
C17_Witness ==
  /\ SquareOriginCall /\ numb_list(call.t_list) = <<1, 2>>
  /\ ret.generated = 25 /\ Len(ret.data) = 8
  /\ \E i \in 1..Len(ret.data) :
       ret.data[i].x = 1 /\ ret.data[i].y = -1 /\ ret.data[i].NN = 2

====
